---- MODULE Spec2Model ----
(***************************************************************************)
(* The relational schema declared in src/backend/models.py (SQLAlchemy     *)
(* declarative models User, Profile, Admin, Like, Match, Message) and the  *)
(* module-load step Base.metadata.create_all(bind=engine), modelled as a   *)
(* state machine over the PostgreSQL database the engine is bound to.      *)
(*                                                                         *)
(* State: which of the declared tables exist, and the rows of each table   *)
(* (the columns that carry a key, a reference or a default).               *)
(* Operations: create_all, one INSERT per declared table, and DELETE of a  *)
(* users row.  Every statement is atomic: it either takes effect or is     *)
(* rejected with an integrity error and changes no table.  PostgreSQL      *)
(* enforces every declared foreign key, so foreign-key enforcement is      *)
(* active in every state.                                                  *)
(***************************************************************************)
EXTENDS Integers, FiniteSets, Sequences, Bags

VARIABLES
    tables,      \* names of the tables that exist in the database
    loaded,      \* TRUE once the module has been imported (create_all has run)
    users,       \* rows of "users", a bag: the number of rows holding each value
    profiles,    \* rows of "profiles"
    admins,      \* rows of "admins"
    likes,       \* rows of "likes"
    matches,     \* rows of "matches"
    messages,    \* rows of "messages"
    last         \* the last statement issued, its arguments and its outcome

vars == <<tables, loaded, users, profiles, admins, likes, matches, messages, last>>

rowVars == <<users, profiles, admins, likes, matches, messages>>

dependentVars == <<profiles, admins, likes, matches, messages>>

(***************************************************************************)
(* Bounds of the model.                                                    *)
(***************************************************************************)
MaxId == 2        \* user ids a caller may supply are 1..MaxId
MaxRows == 2      \* rows of the dependent table a single-table specification fills
MaxRowsAll == 1   \* rows of the five dependent tables together in Spec

Ids == 1 .. MaxId

(***************************************************************************)
(* Values.                                                                 *)
(***************************************************************************)
\* SQL NULL / Python None: the value of a column the INSERT leaves out.
NULL == 0

IdArgs == Ids \cup {NULL}

\* Outcomes of a statement (the integrity errors the driver raises).
OK == "ok"
NotNullViolation == "not_null_violation"
UniqueViolation == "unique_violation"
ForeignKeyViolation == "foreign_key_violation"
DuplicateTable == "duplicate_table"

\* __tablename__ of the six mapped classes, in the order create_all emits
\* them (users first: every other table references users.id).
TableOrder == <<"users", "profiles", "admins", "likes", "matches", "messages">>

AllTables == {TableOrder[i] : i \in 1 .. Len(TableOrder)}

\* Whether an INSERT into users supplies the nullable=False columns email,
\* name and password (TRUE) or leaves at least one of them NULL (FALSE).
RequiredGiven == BOOLEAN

\* Values an INSERT into admins may give for is_blocked.
BlockedArgs == {"omitted", "true", "false"}

(***************************************************************************)
(* Helpers over rows.                                                      *)
(***************************************************************************)
Stmt(op, a, b, opt, names, res) ==
    [op |-> op, a |-> a, b |-> b, opt |-> opt, names |-> names, res |-> res]

MaxOf(S) == IF S = {} THEN 0 ELSE CHOOSE m \in S : \A y \in S : y <= m

\* Integer primary_key columns of the five dependent tables (autoincrement
\* by default): the database assigns an id no row of the table holds.
NextSerial(rows) == MaxOf({r.id : r \in rows}) + 1

TotalRows ==
    Cardinality(profiles) + Cardinality(admins) + Cardinality(likes)
        + Cardinality(matches) + Cardinality(messages)

UserRow(id) == [id |-> id]

UserIdsOf(bag) == {r.id : r \in BagToSet(bag)}

UserIds == UserIdsOf(users)

UserExists(id) == id \in UserIds

\* Mutation: the column is declared without ForeignKey("users.id").
RefOkUnchecked(ref) == TRUE

\* ForeignKey("users.id") on a column holding ref: a NULL reference is not
\* checked, any other value must be the id of a users row.
RefOk(ref) == ref = NULL \/ UserExists(ref)

\* Whether some row of a dependent table references the user id.
IsReferenced(id) ==
    \/ \E r \in profiles \cup admins : r.user_id = id
    \/ \E r \in likes \cup matches : r.user_id = id \/ r.liked_user_id = id
    \/ \E r \in messages : r.sender_id = id \/ r.receiver_id = id

(***************************************************************************)
(* Base.metadata.create_all(bind=engine)                                   *)
(***************************************************************************)
\* Mutation: the last declared table is left out of the metadata.
ToCreateSkipsLast(existing) ==
    {TableOrder[i] : i \in {j \in 1 .. Len(TableOrder) - 1 : TableOrder[j] \notin existing}}

\* Mutation: checkfirst=False, CREATE TABLE is issued for every declared table.
ToCreateNoCheck(existing) == {TableOrder[i] : i \in 1 .. Len(TableOrder)}

\* checkfirst=True (the default): CREATE TABLE is issued only for the
\* declared tables that do not exist yet.
ToCreate(existing) ==
    {TableOrder[i] : i \in {j \in 1 .. Len(TableOrder) : TableOrder[j] \notin existing}}

\* CREATE TABLE of a table that exists fails, and the whole DDL transaction
\* is rolled back.
CreateAll ==
    LET todo == ToCreate(tables)
        res == IF todo \cap tables # {} THEN DuplicateTable ELSE OK
    IN  /\ tables' = IF res = OK THEN tables \cup todo ELSE tables
        /\ loaded' = (loaded \/ res = OK)
        /\ last' = Stmt("create_all", NULL, NULL, "-", todo, res)
        /\ UNCHANGED rowVars

(***************************************************************************)
(* INSERT INTO users                                                       *)
(***************************************************************************)
\* Mutation: autoincrement left at its default, the database generates the
\* id the caller did not give.
UserInsertIdAuto(given) == IF given = NULL THEN MaxOf(UserIds) + 1 ELSE given

\* id = Column(Integer, primary_key=True, autoincrement=False): the value
\* stored is the one the caller gave, NULL when the caller gave none.
UserInsertId(given) == given

\* NOT NULL of the primary key and of email, name, password; then the
\* primary key's uniqueness.
UserInsertResult(id, complete) ==
    IF id = NULL \/ ~complete THEN NotNullViolation
    ELSE IF UserExists(id) THEN UniqueViolation
    ELSE OK

InsertUser(given, complete) ==
    LET id == UserInsertId(given)
        res == UserInsertResult(id, complete)
    IN  /\ loaded
        /\ "users" \in tables
        /\ users' = IF res = OK THEN users (+) SetToBag({UserRow(id)}) ELSE users
        /\ last' = Stmt("insert_user", given, NULL,
                        IF complete THEN "complete" ELSE "incomplete", {}, res)
        /\ UNCHANGED <<tables, loaded, dependentVars>>

(***************************************************************************)
(* DELETE FROM users WHERE id = :id                                        *)
(***************************************************************************)
\* Mutation: the users row is deleted whether or not it is referenced.
DeleteUserResultUnchecked(id) == OK

\* No ForeignKey declares ondelete and no relationship declares a cascade:
\* the referential action is NO ACTION, which rejects the DELETE of a row
\* that is still referenced.
DeleteUserResult(id) ==
    IF UserExists(id) /\ IsReferenced(id) THEN ForeignKeyViolation ELSE OK

DeleteUser(id) ==
    LET res == DeleteUserResult(id)
        kept == {r \in BagToSet(users) : r.id # id}
    IN  /\ loaded
        /\ "users" \in tables
        /\ users' = IF res = OK THEN [r \in kept |-> users[r]] ELSE users
        /\ last' = Stmt("delete_user", id, NULL, "-", {}, res)
        /\ UNCHANGED <<tables, loaded, dependentVars>>

(***************************************************************************)
(* INSERT INTO profiles                                                    *)
(***************************************************************************)
\* user_id = Column(Integer, ForeignKey("users.id"), nullable=False): no
\* unique constraint, so a user_id already held by a profiles row is accepted.
ProfileInsertResult(user_id) ==
    IF user_id = NULL THEN NotNullViolation
    ELSE IF ~RefOk(user_id) THEN ForeignKeyViolation
    ELSE OK

InsertProfile(user_id) ==
    LET res == ProfileInsertResult(user_id)
    IN  /\ loaded
        /\ "profiles" \in tables
        /\ profiles' = IF res = OK
                       THEN profiles \cup {[id |-> NextSerial(profiles), user_id |-> user_id]}
                       ELSE profiles
        /\ last' = Stmt("insert_profile", user_id, NULL, "-", {}, res)
        /\ UNCHANGED <<tables, loaded, users, admins, likes, matches, messages>>

(***************************************************************************)
(* INSERT INTO admins                                                      *)
(***************************************************************************)
\* is_blocked = Column(Boolean, default=False)
AdminIsBlocked(arg) == IF arg = "omitted" THEN FALSE ELSE arg = "true"

\* Mutation: unique=True is missing from admins.user_id.
AdminUserIdNeverTaken(user_id) == FALSE

\* user_id = Column(Integer, ForeignKey("users.id"), nullable=False, unique=True)
AdminUserIdTaken(user_id) == \E r \in admins : r.user_id = user_id

AdminInsertResult(user_id) ==
    IF user_id = NULL THEN NotNullViolation
    ELSE IF AdminUserIdTaken(user_id) THEN UniqueViolation
    ELSE IF ~RefOk(user_id) THEN ForeignKeyViolation
    ELSE OK

InsertAdmin(user_id, arg) ==
    LET res == AdminInsertResult(user_id)
    IN  /\ loaded
        /\ "admins" \in tables
        /\ admins' = IF res = OK
                     THEN admins \cup {[id |-> NextSerial(admins), user_id |-> user_id,
                                        is_blocked |-> AdminIsBlocked(arg)]}
                     ELSE admins
        /\ last' = Stmt("insert_admin", user_id, NULL, arg, {}, res)
        /\ UNCHANGED <<tables, loaded, users, profiles, likes, matches, messages>>

(***************************************************************************)
(* INSERT INTO likes                                                       *)
(***************************************************************************)
\* Mutation: likes carries the unique constraint that matches declares.
LikeInsertResultUnique(user_id, liked_user_id) ==
    IF \E r \in likes : r.user_id = user_id /\ r.liked_user_id = liked_user_id
    THEN UniqueViolation
    ELSE IF ~RefOk(user_id) \/ ~RefOk(liked_user_id) THEN ForeignKeyViolation
    ELSE OK

\* user_id and liked_user_id are nullable foreign keys; the table declares
\* no unique constraint.
LikeInsertResult(user_id, liked_user_id) ==
    IF ~RefOk(user_id) \/ ~RefOk(liked_user_id) THEN ForeignKeyViolation
    ELSE OK

InsertLike(user_id, liked_user_id) ==
    LET res == LikeInsertResult(user_id, liked_user_id)
    IN  /\ loaded
        /\ "likes" \in tables
        /\ likes' = IF res = OK
                    THEN likes \cup {[id |-> NextSerial(likes), user_id |-> user_id,
                                      liked_user_id |-> liked_user_id]}
                    ELSE likes
        /\ last' = Stmt("insert_like", user_id, liked_user_id, "-", {}, res)
        /\ UNCHANGED <<tables, loaded, users, profiles, admins, matches, messages>>

(***************************************************************************)
(* INSERT INTO matches                                                     *)
(***************************************************************************)
\* Mutation: the constraint treats (A,B) and (B,A) as the same pair.
UniqueMatchSymmetric(row, user_id, liked_user_id) ==
    /\ user_id # NULL
    /\ liked_user_id # NULL
    /\ \/ row.user_id = user_id /\ row.liked_user_id = liked_user_id
       \/ row.user_id = liked_user_id /\ row.liked_user_id = user_id

\* UniqueConstraint("user_id", "liked_user_id", name="unique_match") over two
\* nullable columns: a row conflicts with the new one when both its columns
\* equal the new row's, and a NULL equals nothing (not even another NULL).
UniqueMatchConflict(row, user_id, liked_user_id) ==
    /\ user_id # NULL
    /\ liked_user_id # NULL
    /\ row.user_id = user_id
    /\ row.liked_user_id = liked_user_id

MatchInsertResult(user_id, liked_user_id) ==
    IF \E r \in matches : UniqueMatchConflict(r, user_id, liked_user_id)
    THEN UniqueViolation
    ELSE IF ~RefOk(user_id) \/ ~RefOk(liked_user_id) THEN ForeignKeyViolation
    ELSE OK

InsertMatch(user_id, liked_user_id) ==
    LET res == MatchInsertResult(user_id, liked_user_id)
    IN  /\ loaded
        /\ "matches" \in tables
        /\ matches' = IF res = OK
                      THEN matches \cup {[id |-> NextSerial(matches), user_id |-> user_id,
                                          liked_user_id |-> liked_user_id]}
                      ELSE matches
        /\ last' = Stmt("insert_match", user_id, liked_user_id, "-", {}, res)
        /\ UNCHANGED <<tables, loaded, users, profiles, admins, likes, messages>>

(***************************************************************************)
(* INSERT INTO messages                                                    *)
(***************************************************************************)
\* sender_id and receiver_id are nullable foreign keys.
MessageInsertResult(sender_id, receiver_id) ==
    IF ~RefOk(sender_id) \/ ~RefOk(receiver_id) THEN ForeignKeyViolation
    ELSE OK

InsertMessage(sender_id, receiver_id) ==
    LET res == MessageInsertResult(sender_id, receiver_id)
    IN  /\ loaded
        /\ "messages" \in tables
        /\ messages' = IF res = OK
                       THEN messages \cup {[id |-> NextSerial(messages), sender_id |-> sender_id,
                                            receiver_id |-> receiver_id]}
                       ELSE messages
        /\ last' = Stmt("insert_message", sender_id, receiver_id, "-", {}, res)
        /\ UNCHANGED <<tables, loaded, users, profiles, admins, likes, matches>>

(***************************************************************************)
(* Specifications.                                                         *)
(***************************************************************************)
\* Before the module is imported the database holds any subset of the six
\* tables, with no rows.
Init ==
    /\ tables \in SUBSET AllTables
    /\ loaded = FALSE
    /\ users = EmptyBag
    /\ profiles = {}
    /\ admins = {}
    /\ likes = {}
    /\ matches = {}
    /\ messages = {}
    /\ last = Stmt("none", NULL, NULL, "-", {}, OK)

\* The model stops adding dependent rows at cap; rejected statements are
\* not limited.
Within(cap) == TotalRows' <= cap

UserStep ==
    \/ \E given \in IdArgs, complete \in RequiredGiven : InsertUser(given, complete)
    \/ \E id \in Ids : DeleteUser(id)

ProfileStep(cap) == \E user_id \in IdArgs : InsertProfile(user_id) /\ Within(cap)

AdminStep(cap) ==
    \E user_id \in IdArgs, arg \in BlockedArgs : InsertAdmin(user_id, arg) /\ Within(cap)

LikeStep(cap) ==
    \E user_id \in IdArgs, liked_user_id \in IdArgs :
        InsertLike(user_id, liked_user_id) /\ Within(cap)

MatchStep(cap) ==
    \E user_id \in IdArgs, liked_user_id \in IdArgs :
        InsertMatch(user_id, liked_user_id) /\ Within(cap)

MessageStep(cap) ==
    \E sender_id \in IdArgs, receiver_id \in IdArgs :
        InsertMessage(sender_id, receiver_id) /\ Within(cap)

\* All six tables in use.
Next ==
    \/ CreateAll
    \/ UserStep
    \/ ProfileStep(MaxRowsAll)
    \/ AdminStep(MaxRowsAll)
    \/ LikeStep(MaxRowsAll)
    \/ MatchStep(MaxRowsAll)
    \/ MessageStep(MaxRowsAll)

Spec == Init /\ [][Next]_vars

\* users and one dependent table in use.
NextProfiles == CreateAll \/ UserStep \/ ProfileStep(MaxRows)

SpecProfiles == Init /\ [][NextProfiles]_vars

NextAdmins == CreateAll \/ UserStep \/ AdminStep(MaxRows)

SpecAdmins == Init /\ [][NextAdmins]_vars

NextLikes == CreateAll \/ UserStep \/ LikeStep(MaxRows)

SpecLikes == Init /\ [][NextLikes]_vars

NextMatches == CreateAll \/ UserStep \/ MatchStep(MaxRows)

SpecMatches == Init /\ [][NextMatches]_vars

(***************************************************************************)
(* Properties.                                                             *)
(***************************************************************************)
DependentInserts ==
    {"insert_profile", "insert_admin", "insert_like", "insert_match", "insert_message"}

\* A reference that names an id no users row holds.
Dangling(ref) == ref # NULL /\ ~UserExists(ref)

\* Every reference held by a dependent row is NULL or the id of a users row.
NoOrphans ==
    /\ \A r \in profiles \cup admins : RefOk(r.user_id)
    /\ \A r \in likes \cup matches : RefOk(r.user_id) /\ RefOk(r.liked_user_id)
    /\ \A r \in messages : RefOk(r.sender_id) /\ RefOk(r.receiver_id)

SamePair(r, user_id, liked_user_id) ==
    r.user_id = user_id /\ r.liked_user_id = liked_user_id

\* C1: once create_all has completed without error, all six tables users,
\* profiles, admins, likes, matches and messages exist, whatever subset of
\* them existed before.
C1_AllTablesExist ==
    /\ loaded => tables = AllTables
    /\ (last.op = "create_all" /\ last.res = OK) => (loaded /\ tables = AllTables)

\* create_all has run on a database that held some but not all of the tables.
C1_Witness ==
    /\ last.op = "create_all"
    /\ last.res = OK
    /\ last.names # {}
    /\ last.names # AllTables
    /\ tables = AllTables

\* C2: the matches table never holds two rows with the same
\* (user_id, liked_user_id) pair.
C2_NoDuplicateMatchPairs ==
    \A r1 \in matches : \A r2 \in matches :
        SamePair(r1, r2.user_id, r2.liked_user_id) => r1 = r2

\* C3: an INSERT into likes of a pair of existing users that a likes row
\* already holds is accepted and adds exactly one row, with that pair and an
\* id no other row has.
C3_DuplicateLikesAccumulate ==
    [][(/\ last'.op = "insert_like"
        /\ UserExists(last'.a)
        /\ UserExists(last'.b)
        /\ \E r \in likes : SamePair(r, last'.a, last'.b))
       => (/\ last'.res = OK
           /\ likes \subseteq likes'
           /\ Cardinality(likes') = Cardinality(likes) + 1
           /\ \A r \in likes' \ likes :
                 /\ SamePair(r, last'.a, last'.b)
                 /\ \A q \in likes : q.id # r.id)]_vars

\* Two likes rows hold the same pair of existing users.
C3_Witness ==
    /\ last.op = "insert_like"
    /\ last.res = OK
    /\ \E r1 \in likes : \E r2 \in likes :
          /\ r1.id # r2.id
          /\ r1.user_id # NULL
          /\ r1.liked_user_id # NULL
          /\ SamePair(r1, r2.user_id, r2.liked_user_id)

\* C4: an INSERT of a Profile, Admin, Like, Match or Message row with a user
\* reference that is the id of no users row fails with a foreign-key
\* violation and leaves every table unchanged.
C4_DanglingReferenceRejected ==
    [][(/\ last'.op \in DependentInserts
        /\ Dangling(last'.a) \/ Dangling(last'.b))
       => (last'.res = ForeignKeyViolation /\ UNCHANGED rowVars)]_vars

\* An INSERT naming a nonexistent user was rejected while rows exist.
C4_Witness ==
    /\ last.op \in DependentInserts
    /\ last.res = ForeignKeyViolation
    /\ Dangling(last.a) \/ Dangling(last.b)
    /\ users # EmptyBag
    /\ TotalRows > 0

\* C5: an INSERT into users that gives no id fails with a not-null violation
\* and adds no row; an accepted INSERT adds one row carrying exactly the id
\* the caller gave; no two users rows share an id.
C5_UserIdCallerAssigned ==
    /\ [](\A r \in BagToSet(users) :
             /\ CopiesIn(r, users) = 1
             /\ \A q \in BagToSet(users) : q.id = r.id => q = r)
    /\ [][last'.op = "insert_user"
          => /\ last'.a = NULL => (last'.res = NotNullViolation /\ users' = users)
             /\ last'.res = OK
                  => /\ last'.a # NULL
                     /\ ~UserExists(last'.a)
                     /\ users' = users (+) SetToBag({UserRow(last'.a)})
             /\ last'.res # OK => users' = users]_vars

\* An INSERT complete but for the id was rejected with users rows present.
C5_Witness ==
    /\ last.op = "insert_user"
    /\ last.a = NULL
    /\ last.opt = "complete"
    /\ last.res = NotNullViolation
    /\ users # EmptyBag

\* C6: create_all run again on a database where the tables exist succeeds,
\* creates nothing, and leaves the set of tables and every row unchanged.
C6_CreateAllIdempotent ==
    [][(loaded /\ last'.op = "create_all")
       => (/\ last'.res = OK
           /\ last'.names = {}
           /\ loaded'
           /\ tables' = tables
           /\ UNCHANGED rowVars)]_vars

\* create_all has run again on a database that holds rows.
C6_Witness ==
    /\ last.op = "create_all"
    /\ last.res = OK
    /\ last.names = {}
    /\ users # EmptyBag
    /\ TotalRows > 0

\* C7: at most one profiles row has a given user_id.
C7_OneProfilePerUser ==
    \A r1 \in profiles : \A r2 \in profiles : r1.user_id = r2.user_id => r1 = r2

\* C8: at most one admins row has a given user_id; an INSERT of a second
\* Admin row for the same user is rejected with a unique violation and
\* leaves admins unchanged; an Admin row inserted without an is_blocked
\* value has is_blocked = FALSE.
C8_OneAdminPerUser ==
    /\ [](\A r1 \in admins : \A r2 \in admins : r1.user_id = r2.user_id => r1 = r2)
    /\ [][last'.op = "insert_admin"
          => /\ (\E r \in admins : r.user_id = last'.a)
                  => (last'.res = UniqueViolation /\ admins' = admins)
             /\ (last'.res = OK /\ last'.opt = "omitted")
                  => /\ admins' # admins
                     /\ \A r \in admins' \ admins :
                           r.user_id = last'.a /\ r.is_blocked = FALSE]_vars

\* A second Admin row for a user was rejected; the first row was inserted
\* and holds is_blocked = FALSE.
C8_Witness ==
    /\ last.op = "insert_admin"
    /\ last.res = UniqueViolation
    /\ \E r \in admins : r.user_id = last.a /\ r.is_blocked = FALSE

\* C9 as stated: deleting a users row removes it, referenced or not.
C9_DeleteRemovesUser ==
    last.op = "delete_user" => ~UserExists(last.a)

\* C9 as amended: a DELETE of a users row never removes or changes a
\* dependent row; when the row is still referenced the DELETE is rejected
\* with a foreign-key violation and the users row stays, when it is not
\* referenced the row is removed; no reachable state holds a dependent row
\* that references an id of no users row.
C9_ReferencedUserDeleteRejected ==
    /\ []NoOrphans
    /\ [][last'.op = "delete_user"
          => /\ UNCHANGED dependentVars
             /\ (UserExists(last'.a) /\ IsReferenced(last'.a))
                  => (last'.res = ForeignKeyViolation /\ users' = users)
             /\ ~IsReferenced(last'.a)
                  => (last'.res = OK /\ last'.a \notin UserIdsOf(users'))]_vars

\* The DELETE of a referenced users row was rejected.
C9_Witness ==
    /\ last.op = "delete_user"
    /\ last.res = ForeignKeyViolation
    /\ UserExists(last.a)
    /\ IsReferenced(last.a)

\* C10: for two distinct existing users A and B, once a matches row (A,B)
\* exists and no row (B,A) does, an INSERT of (B,A) is accepted and adds the
\* mirrored row.
C10_MirroredMatchAccepted ==
    [][(/\ last'.op = "insert_match"
        /\ last'.a # last'.b
        /\ UserExists(last'.a)
        /\ UserExists(last'.b)
        /\ \E r \in matches : SamePair(r, last'.b, last'.a)
        /\ ~\E r \in matches : SamePair(r, last'.a, last'.b))
       => (/\ last'.res = OK
           /\ matches \subseteq matches'
           /\ \E r \in matches' \ matches : SamePair(r, last'.a, last'.b))]_vars

\* Both mirrored rows (A,B) and (B,A) are held.
C10_Witness ==
    /\ last.op = "insert_match"
    /\ last.res = OK
    /\ \E r1 \in matches : \E r2 \in matches :
          /\ r1.user_id # NULL
          /\ r1.liked_user_id # NULL
          /\ r1.user_id # r1.liked_user_id
          /\ SamePair(r2, r1.liked_user_id, r1.user_id)

====
